---------------------------- MODULE Spec2Model ----------------------------
(***************************************************************************)
(* A model of the Bloom filter of src/bloom_filter.cpp (class BloomFilter)  *)
(* and of the calls src/main.cpp makes on it.                               *)
(*                                                                          *)
(* Filters are objects on a heap: a filter's hash functions are closures    *)
(* that capture the address of the object that built them, as in            *)
(* initializeHashFunctions.  unsigned long and size_t are 64 bits wide      *)
(* (LP64); a 64-bit value is kept as four 16-bit limbs, least significant   *)
(* first, so that every intermediate result stays a small integer.          *)
(* Whether plain char is signed is a property of the build (charSigned).    *)
(***************************************************************************)
EXTENDS Integers, Sequences, FiniteSets

VARIABLES
    charSigned,   \* build: plain char is signed (x86) or unsigned (ARM)
    heap,         \* address -> BloomFilter object (or a free cell)
    filter,       \* the caller's BloomFilter* (main.cpp: filter)
    inserted,     \* keys whose insert() returned since the last clear()
    file,         \* the file saveToFile writes and loadFromFile reads
    saved,        \* the filter state the last save serialized
    ret,          \* the last call made and what it returned
    fault,        \* how the process died, or "none"
    readers,      \* thread -> where its mightContain call stands
    filterCreated,     \* main.cpp: filterCreated
    insertedElements,  \* main.cpp: insertedElements
    elements      \* the side file <filename>.elements of saveFilterToFile

\* The variables of main beside its filter pointer.
cli == <<filterCreated, insertedElements, elements>>

vars == <<charSigned, heap, filter, inserted, file, saved, ret, fault, readers, cli>>

---------------------------------------------------------------------------
(* Bounds of the model *)

MaxSize == 9        \* the largest filterSize the constructor is called with
MaxHashes == 2      \* ... and numHashFunctions in 0..MaxHashes
MaxObjects == 2     \* heap cells
MaxKeyLen == 2      \* the hash functions are examined on keys up to this length
MaxItems == 8       \* createOptimal is called with expectedItems in 0..MaxItems
MaxExp2 == 4        \* ... and falsePositiveRate 2^-a * 10^-b, a in -1..MaxExp2,
MaxExp10 == 2       \*     b in 0..MaxExp10 (and 0, and a negative rate)
MaxReaders == 2     \* threads that call mightContain at the same time
MaxElements == 2    \* main keeps up to this many strings in insertedElements

\* nullptr (main.cpp: BloomFilter* filter = nullptr)
NULL == 0

\* The byte values keys are made of: 'a', 'b' and one byte above 127.
Bytes == {97, 98, 200}

\* The keys the caller inserts and queries: "a" and a two-byte key.
Keys == {<<97>>, <<98, 200>>}

\* The sizes filters are constructed with: none, one bit, a whole number of
\* bytes (MaxSize - 1 = 8) and a last byte that is partly padding.
Sizes == {0, 1, MaxSize - 1, MaxSize}

RECURSIVE SeqsUpTo(_)
SeqsUpTo(n) ==
    IF n = 0 THEN {<<>>}
    ELSE LET shorter == SeqsUpTo(n - 1)
         IN shorter \cup {Append(s, b) : s \in {t \in shorter : Len(t) = n - 1}, b \in Bytes}

\* Every key of at most MaxKeyLen bytes.
AllKeys == SeqsUpTo(MaxKeyLen)

Addrs == 1..MaxObjects

Readers == 1..MaxReaders

---------------------------------------------------------------------------
(* 64-bit unsigned arithmetic (unsigned long, size_t) *)

LimbBase == 2^16
NumLimbs == 64 \div 16
Limbs == 1..NumLimbs

\* The value n >= 0 (n < 2^31) as an unsigned long.
RECURSIVE NatLimb(_, _)
NatLimb(n, i) == IF i = 1 THEN n % LimbBase ELSE NatLimb(n \div LimbBase, i - 1)

ULong(n) == [i \in Limbs |-> NatLimb(n, i)]

\* Conversion of an int to unsigned long: a negative value wraps modulo 2^64
\* (sign extension).  |v| < 2^16.
IntToULong(v) ==
    IF v >= 0 THEN ULong(v)
    ELSE [i \in Limbs |-> IF i = 1 THEN LimbBase + v ELSE LimbBase - 1]

RECURSIVE CarryInto(_, _, _)
CarryInto(x, y, i) ==
    IF i = 1 THEN 0 ELSE (x[i - 1] + y[i - 1] + CarryInto(x, y, i - 1)) \div LimbBase

\* x + y modulo 2^64
AddU(x, y) == [i \in Limbs |-> (x[i] + y[i] + CarryInto(x, y, i)) % LimbBase]

\* -x modulo 2^64 (two's complement)
NegU(x) == AddU([i \in Limbs |-> LimbBase - 1 - x[i]], ULong(1))

\* x - y modulo 2^64
SubU(x, y) == AddU(x, NegU(y))

\* x << n modulo 2^64, 0 <= n <= 16
ShlU(x, n) ==
    IF n = 16
    THEN [i \in Limbs |-> IF i = 1 THEN 0 ELSE x[i - 1]]
    ELSE [i \in Limbs |->
            ((x[i] * 2^n) % LimbBase)
            + (IF i = 1 THEN 0 ELSE (x[i - 1] * 2^n) \div LimbBase)]

\* x % m for 0 < m < 2^15
RECURSIVE ModFrom(_, _, _)
ModFrom(x, m, i) ==
    IF i > NumLimbs THEN 0 ELSE (ModFrom(x, m, i + 1) * LimbBase + x[i]) % m

ModU(x, m) == ModFrom(x, m, 1)

---------------------------------------------------------------------------
(* Objects *)

\* A heap cell that holds no object (never allocated, or deleted).
FreeCell ==
    [alive |-> FALSE, size |-> 0, numHashes |-> 0, bitArray |-> <<>>, hashFunctions |-> <<>>]

\* The lowest free address (operator new); NULL when the heap is full.
Alloc(h) ==
    IF \E a \in Addrs : ~h[a].alive
    THEN CHOOSE a \in Addrs : ~h[a].alive /\ \A b \in Addrs : ~h[b].alive => a <= b
    ELSE NULL

Live(h) == {a \in Addrs : h[a].alive}

\* initializeHashFunctions: one closure [this, i] per i in [0, numHashes).
initializeHashFunctions(self, numHashes) ==
    [n \in 1..numHashes |-> [this |-> self, i |-> n - 1]]

\* A value too large to allocate: what a file names that no save wrote
\* (2^62) and what a conversion with undefined behaviour can leave in a
\* size_t or an unsigned int (2^63, 2^64 - 1, 3907501056).
Huge == 2^30

\* The constructor can allocate bitArray and hashFunctions; if it cannot,
\* it throws std::bad_alloc.
Allocatable(args) == args.size < Huge /\ args.numHashes < Huge

\* The constructor, building the object at address self.
BloomFilter(self, filterSize, numHashFunctions) ==
    [alive |-> TRUE,
     size |-> filterSize,
     numHashes |-> numHashFunctions,
     bitArray |-> [i \in 0..(filterSize - 1) |-> FALSE],
     hashFunctions |-> initializeHashFunctions(self, numHashFunctions)]

---------------------------------------------------------------------------
(* The hash scheme *)

\* The int a plain char holding byte b promotes to, in a build where plain
\* char is signed or not.
CharValue(signed, b) == IF signed /\ b >= 128 THEN b - 256 ELSE b

\* The loop of hashFunction1 (djb2) over the first n chars of key:
\* hash = 5381; hash = ((hash << 5) + hash) + c
RECURSIVE Djb2(_, _, _)
Djb2(signed, key, n) ==
    IF n = 0 THEN ULong(5381)
    ELSE LET hash == Djb2(signed, key, n - 1)
         IN AddU(AddU(ShlU(hash, 5), hash), IntToULong(CharValue(signed, key[n])))

\* The loop of hashFunction2 (sdbm) over the first n chars of key:
\* hash = 0; hash = c + (hash << 6) + (hash << 16) - hash
RECURSIVE Sdbm(_, _, _)
Sdbm(signed, key, n) ==
    IF n = 0 THEN ULong(0)
    ELSE LET hash == Sdbm(signed, key, n - 1)
         IN SubU(AddU(AddU(IntToULong(CharValue(signed, key[n])), ShlU(hash, 6)),
                      ShlU(hash, 16)),
                 hash)

\* The two loops' results for every key, computed once.
Djb2Of == [signed \in BOOLEAN, key \in AllKeys |-> Djb2(signed, key, Len(key))]

SdbmOf == [signed \in BOOLEAN, key \in AllKeys |-> Sdbm(signed, key, Len(key))]

\* hash % size for every key and every size the model builds, computed once.
Hash1Of ==
    [signed \in BOOLEAN, key \in AllKeys, m \in 1..MaxSize |->
        ModU(Djb2Of[signed, key], m)]

Hash2Of ==
    [signed \in BOOLEAN, key \in AllKeys, m \in 1..MaxSize |->
        ModU(SdbmOf[signed, key], m)]

\* this->hashFunction1(key): hash % size, size read through this.
hashFunction1(this, key) == Hash1Of[charSigned, key, heap[this].size]

\* this->hashFunction2(key)
hashFunction2(this, key) == Hash2Of[charSigned, key, heap[this].size]

\* this->combinedHash(key, seed): (hash1 + seed * hash2) % size in size_t.
\* hash1, hash2 < size and seed < numHashes, so the sum stays far below 2^64
\* and the size_t arithmetic does not wrap.
combinedHash(this, key, seed) ==
    LET hash1 == hashFunction1(this, key)
        hash2 == hashFunction2(this, key)
    IN (hash1 + seed * hash2) % heap[this].size

\* A call of the closure c: [this, i](key) { return this->combinedHash(key, i); }
CallHash(c, key) == combinedHash(c.this, key, c.i)

\* The call has defined behaviour: the captured object still exists and the
\* divisor size is not zero.
HashDefined(c) == heap[c.this].alive /\ heap[c.this].size > 0

\* Every hash call insert/mightContain on self would make is defined and
\* yields an index inside self's bitArray.
CallsDefined(self, key) ==
    \A n \in 1..Len(heap[self].hashFunctions) :
        LET c == heap[self].hashFunctions[n]
        IN HashDefined(c) /\ CallHash(c, key) \in DOMAIN heap[self].bitArray

\* The same with the hash functions' objects read whether or not they still
\* exist: what the calls find when the memory of a deleted object still
\* holds its members, or holds an object built there since.
CallsComputable(self, key) ==
    \A n \in 1..Len(heap[self].hashFunctions) :
        LET c == heap[self].hashFunctions[n]
        IN heap[c.this].size > 0 /\ CallHash(c, key) \in DOMAIN heap[self].bitArray

\* Whether the hash calls of self on key can go through (TRUE) and whether
\* they can stop the process (FALSE).  A call through a closure whose object
\* was deleted has undefined behaviour: it can do either.
HashOutcomes(self, key) ==
    IF CallsDefined(self, key) THEN {TRUE}
    ELSE IF CallsComputable(self, key) THEN BOOLEAN
    ELSE {FALSE}

---------------------------------------------------------------------------
(* Bit storage *)

\* insert: for each hash function in order, bitArray[hashFunc(element)] = true.
RECURSIVE insertFrom(_, _, _, _)
insertFrom(bits, fs, element, n) ==
    IF n > Len(fs) THEN bits
    ELSE insertFrom([bits EXCEPT ![CallHash(fs[n], element)] = TRUE], fs, element, n + 1)

\* insert that leaves out the last hash function.
insertDropLast(self, element) ==
    LET fs == heap[self].hashFunctions
    IN insertFrom(heap[self].bitArray, SubSeq(fs, 1, Len(fs) - 1), element, 1)

\* insert that sets the first bit as well.
insertSpill(self, element) ==
    LET bits == insertFrom(heap[self].bitArray, heap[self].hashFunctions, element, 1)
    IN [i \in DOMAIN bits |-> bits[i] \/ i = 0]

\* insert that inverts the bit at each index.
insertFlip(self, element) ==
    LET fs == heap[self].hashFunctions
        hit == {CallHash(fs[n], element) : n \in 1..Len(fs)}
    IN [i \in DOMAIN heap[self].bitArray |->
          IF i \in hit THEN ~heap[self].bitArray[i] ELSE heap[self].bitArray[i]]

\* The bitArray of self after self->insert(element).
insert(self, element) ==
    insertFrom(heap[self].bitArray, heap[self].hashFunctions, element, 1)

\* mightContain that looks at the first hash function's bit only.
mightContainFirstOnly(self, element, n) ==
    \/ heap[self].hashFunctions = <<>>
    \/ heap[self].bitArray[CallHash(heap[self].hashFunctions[1], element)]

\* mightContain: false at the first hash function whose bit is not set.
RECURSIVE mightContainFrom(_, _, _)
mightContainFrom(self, element, n) ==
    IF n > Len(heap[self].hashFunctions) THEN TRUE
    ELSE IF ~heap[self].bitArray[CallHash(heap[self].hashFunctions[n], element)] THEN FALSE
    ELSE mightContainFrom(self, element, n + 1)

mightContain(self, element) == mightContainFrom(self, element, 1)

\* A test that answers the opposite.
BitAtNegated(self, element, n) ==
    ~heap[self].bitArray[CallHash(heap[self].hashFunctions[n], element)]

\* One iteration of the loop of mightContain:
\* index = hashFunc(element); bitArray[index]
BitAt(self, element, n) ==
    heap[self].bitArray[CallHash(heap[self].hashFunctions[n], element)]

\* A thread that is in no call.
Idle == [pc |-> "idle"]

\* clear that drops the last cell.
clearShort(self) == [i \in 0..(heap[self].size - 2) |-> FALSE]

\* clear that resets the first bit only.
clearFirstBit(self) ==
    [i \in DOMAIN heap[self].bitArray |-> i # 0 /\ heap[self].bitArray[i]]

\* The bitArray of self after self->clear(): bitArray[i] = false for i < size.
clear(self) == [i \in DOMAIN heap[self].bitArray |->
                  IF i < heap[self].size THEN FALSE ELSE heap[self].bitArray[i]]

getSize(self) == heap[self].size

getNumHashes(self) == heap[self].numHashes

\* The estimate without the test for no items.
getCurrentFalsePositiveRateUntested(self, insertedItems) ==
    [zero |-> FALSE, k |-> heap[self].numHashes, n |-> insertedItems,
     m |-> heap[self].size]

\* getCurrentFalsePositiveRate: 0.0 for no items, else the value of the
\* formula, which is kept by its operands (the double is not computed).
getCurrentFalsePositiveRate(self, insertedItems) ==
    IF insertedItems = 0
    THEN [zero |-> TRUE, k |-> 0, n |-> 0, m |-> 0]
    ELSE [zero |-> FALSE, k |-> heap[self].numHashes, n |-> insertedItems,
          m |-> heap[self].size]

---------------------------------------------------------------------------
(* Persistence *)

\* A path that names no file.
NoFile == [exists |-> FALSE, bytes |-> <<>>]

\* What saved holds before any save.
NothingSaved == [done |-> FALSE, obj |-> FreeCell, keys |-> {}, answers |-> <<>>]

\* No side file.
NoList == [exists |-> FALSE, lines |-> <<>>]

\* Byte i (1 = least significant) of the native little-endian image of n.
RECURSIVE NatByte(_, _)
NatByte(n, i) == IF i = 1 THEN n % 256 ELSE NatByte(n \div 256, i - 1)

\* The bytes outFile.write(&v, width) writes for the value v.
Native(v, width) == [i \in 1..width |-> NatByte(v, i)]

\* The value inFile.read(&v, Len(bytes)) stores.  A value of Huge or more
\* is kept as Huge: none of them can be allocated.
RECURSIVE FromNative(_)
FromNative(bytes) ==
    IF bytes = <<>> THEN 0
    ELSE LET high == FromNative(Tail(bytes))
         IN IF high >= Huge \div 256 THEN Huge ELSE bytes[1] + 256 * high

\* packedBits[j] after the packing loop: bit (i % 8) of byte (i / 8) is
\* set for each i < size with bitArray[i].
\* The packing with the bits of a byte placed from the other end.
RECURSIVE PackByteMsbFirst(_, _, _, _)
PackByteMsbFirst(bits, size, j, b) ==
    IF b > 7 THEN 0
    ELSE (IF 8 * j + b < size /\ bits[8 * j + b] THEN 2^(7 - b) ELSE 0)
         + PackByteMsbFirst(bits, size, j, b + 1)

RECURSIVE PackByte(_, _, _, _)
PackByte(bits, size, j, b) ==
    IF b > 7 THEN 0
    ELSE (IF 8 * j + b < size /\ bits[8 * j + b] THEN 2^b ELSE 0)
         + PackByte(bits, size, j, b + 1)

PackBits(bits, size) ==
    [n \in 1..((size + 7) \div 8) |-> PackByte(bits, size, n - 1, 0)]

\* Everything saveToFile hands to the stream: sizeof(size) = 8 bytes,
\* sizeof(numHashes) = 4 bytes, then packedBits.
FileImage(obj) ==
    Native(obj.size, 8) \o Native(obj.numHashes, 4) \o PackBits(obj.bitArray, obj.size)

\* Where a failing disk cuts the bytes of a save short: nowhere (the whole
\* image is written), before the first byte, inside the header (in the
\* numHashes field), right after the header, and one byte before the end.
WritePoints(obj) ==
    LET len == 12 + ((obj.size + 7) \div 8)
    IN {0, 10, 12, len - 1, len}

\* self->saveToFile(filename).  openOk: the ofstream opened; written: how
\* many of the bytes handed to the stream reached the file (a failed write
\* only sets the stream's badbit, which saveToFile never reads).
\* Gives the return value and the file left behind.
saveToFile(self, f, openOk, written) ==
    IF ~openOk
    THEN [val |-> FALSE, file |-> f]
    ELSE [val |-> TRUE,
          file |-> [exists |-> TRUE,
                    bytes |-> SubSeq(FileImage(heap[self]), 1, written)]]

\* The bit test with the bits of a byte taken from the other end.
BitOfMsbFirst(packed, i) == (packed[(i \div 8) + 1] \div 2^(7 - (i % 8))) % 2 = 1

\* packedBits[i / 8] & (1 << (i % 8))
BitOf(packed, i) == (packed[(i \div 8) + 1] \div 2^(i % 8)) % 2 = 1

\* Files that no save wrote: a header alone that names size 2^62 and one
\* hash function, and a header alone that names size 0 and three.
ForeignFiles ==
    {[i \in 1..12 |-> IF i = 8 THEN 64 ELSE IF i = 9 THEN 1 ELSE 0],
     [i \in 1..12 |-> IF i = 9 THEN 3 ELSE 0]}

\* BloomFilter::loadFromFile(filename) on heap h.  openOk: the ifstream
\* opened.  Gives the heap afterwards, the pointer returned, whether
\* new BloomFilter ran, and where the function returned ("throw": the
\* constructor threw and nothing is returned).
loadFromFile(h, f, openOk) ==
    IF ~(f.exists /\ openOk)
    THEN [heap |-> h, val |-> NULL, allocated |-> FALSE, at |-> "open"]
    ELSE IF Len(f.bytes) < 8 + 4
    THEN [heap |-> h, val |-> NULL, allocated |-> FALSE, at |-> "header"]
    ELSE
      LET loadedSize == FromNative(SubSeq(f.bytes, 1, 8))
          loadedNumHashes == FromNative(SubSeq(f.bytes, 9, 12))
          a == Alloc(h)
          npacked == (loadedSize + 7) \div 8
          packedBits == SubSeq(f.bytes, 13, 12 + npacked)
          fresh == BloomFilter(a, loadedSize, loadedNumHashes)
      IN IF ~Allocatable([size |-> loadedSize, numHashes |-> loadedNumHashes])
         THEN [heap |-> h, val |-> NULL, allocated |-> FALSE, at |-> "throw"]
         ELSE IF Len(f.bytes) < 12 + npacked
         THEN \* delete loadedFilter; return nullptr
              [heap |-> h, val |-> NULL, allocated |-> TRUE, at |-> "payload"]
         ELSE [heap |-> [h EXCEPT ![a] =
                           [fresh EXCEPT !.bitArray =
                              [i \in 0..(loadedSize - 1) |-> BitOf(packedBits, i)]]],
               val |-> a, allocated |-> TRUE, at |-> "end"]

---------------------------------------------------------------------------
(* Parameter calculation *)

\* The false positive rates createOptimal is called with: 2^-a * 10^-b,
\* zero, and a negative rate.
Rates ==
    {[kind |-> "pow", a |-> a, b |-> b] : a \in (-1)..MaxExp2, b \in 0..MaxExp10}
    \cup {[kind |-> "zero", a |-> 0, b |-> 0], [kind |-> "negative", a |-> 0, b |-> 0]}

\* The rate 2^-a * 10^-b compared with 1: the sign of a*ln 2 + b*ln 10.
BelowOne(p) == p.a * 693147 + p.b * 2302585 > 0

\* 0 < p < 1
ValidRate(p) == p.kind = "pow" /\ BelowOne(p)

\* ceil(x / d) for d > 0
Ceil(x, d) == -((-x) \div d)

\* Millionths: the doubles are enclosed between rationals k / 10^6.
Scale == 10^6

\* -1.0 * n * log(p) / (log(2) * log(2)) for p = 2^-a * 10^-b is
\* n * (a * 1/ln 2 + b * ln 10/(ln 2)^2), with 1/ln 2 = 1.4426950408... and
\* ln 10/(ln 2)^2 = 4.7925291886...; rounded down (up = FALSE) or up.
SizeQuotient(n, p, up) ==
    n * (p.a * (IF up = (p.a >= 0) THEN 1442696 ELSE 1442695)
         + p.b * (IF up THEN 4792530 ELSE 4792529))

\* (m / n) * log(2), with ln 2 = 0.6931471805..., times n
HashQuotient(m, up) == m * (IF up THEN 693148 ELSE 693147)

\* The two enclosures give the same ceilings: the model's value of
\* createOptimal(n, p) is the one the doubles give.
Enclosed(n, p) ==
    /\ Ceil(SizeQuotient(n, p, FALSE), Scale) = Ceil(SizeQuotient(n, p, TRUE), Scale)
    /\ LET m == Ceil(SizeQuotient(n, p, FALSE), Scale)
       IN n > 0 /\ m > 0 =>
            Ceil(HashQuotient(m, FALSE), n * Scale) = Ceil(HashQuotient(m, TRUE), n * Scale)

\* What a double -> unsigned conversion with undefined behaviour yields.
UndefinedCasts == {0, Huge}

\* static_cast<size_t>(std::ceil(...)) in createOptimal: the values it can have.
OptimalSizes(expectedItems, p) ==
    IF p.kind # "pow"
    THEN UndefinedCasts                    \* log(p) is -inf or NaN
    ELSE IF expectedItems = 0
    THEN {0}                               \* ceil(+-0.0)
    ELSE LET m == Ceil(SizeQuotient(expectedItems, p, FALSE), Scale)
         IN IF m < 0 THEN UndefinedCasts   \* a negative double
            ELSE {m}

\* static_cast<unsigned int>(std::ceil((optimalSize / n) * log(2)))
OptimalHashes(optimalSize, expectedItems) ==
    IF expectedItems = 0 \/ optimalSize = Huge
    THEN UndefinedCasts                    \* NaN, +inf or beyond unsigned int
    ELSE {Ceil(HashQuotient(optimalSize, FALSE), expectedItems * Scale)}

\* createOptimal without the two "at least" adjustments.
createOptimalUnadjusted(expectedItems, falsePositiveRate) ==
    UNION {{[size |-> optimalSize, numHashes |-> optimalHashes] :
               optimalHashes \in OptimalHashes(optimalSize, expectedItems)} :
           optimalSize \in OptimalSizes(expectedItems, falsePositiveRate)}

\* BloomFilter::createOptimal(expectedItems, falsePositiveRate): the
\* arguments it can pass to the constructor, after the two "at least"
\* adjustments.
createOptimal(expectedItems, falsePositiveRate) ==
    UNION {{[size |-> IF optimalSize < 8 THEN 8 ELSE optimalSize,
             numHashes |-> IF optimalHashes < 1 THEN 1 ELSE optimalHashes] :
               optimalHashes \in OptimalHashes(optimalSize, expectedItems)} :
           optimalSize \in OptimalSizes(expectedItems, falsePositiveRate)}

---------------------------------------------------------------------------
(* The calls a caller makes on one filter *)

Init ==
    /\ charSigned \in BOOLEAN
    /\ heap = [a \in Addrs |-> FreeCell]
    /\ filter = NULL
    /\ inserted = {}
    /\ file = NoFile
    /\ saved = NothingSaved
    /\ ret = [op |-> "none"]
    /\ fault = "none"
    /\ readers = [t \in Readers |-> Idle]
    /\ filterCreated = FALSE
    /\ insertedElements = <<>>
    /\ elements = NoList

Running == fault = "none"

\* What a hash call with undefined behaviour does to the process: the
\* division by zero traps (x86), or it yields the dividend (ARM) and the
\* access to bitArray at that index is out of bounds; a read through a
\* deleted object, or an index from another object's size, is an invalid
\* access too.
HashFaults == {"SIGFPE", "SIGSEGV"}

\* filter = new BloomFilter(filterSize, numHashFunctions)
Create(filterSize, numHashFunctions) ==
    /\ Running
    /\ filter = NULL
    /\ LET a == Alloc(heap)
       IN /\ heap' = [heap EXCEPT ![a] = BloomFilter(a, filterSize, numHashFunctions)]
          /\ filter' = a
    /\ ret' = [op |-> "create"]
    /\ UNCHANGED <<charSigned, cli, readers, inserted, file, saved, fault>>

\* insert that sets the key's bits in every live filter of the same size.
InsertEverywhere(element) ==
    /\ Running
    /\ filter # NULL
    /\ CallsDefined(filter, element)
    /\ heap' = [a \in Addrs |->
                  IF heap[a].alive /\ heap[a].size = heap[filter].size
                  THEN [heap[a] EXCEPT !.bitArray = insert(filter, element)]
                  ELSE heap[a]]
    /\ inserted' = inserted \cup {element}
    /\ ret' = [op |-> "insert", key |-> element]
    /\ UNCHANGED <<charSigned, cli, readers, filter, file, saved, fault>>

\* filter->insert(element)
Insert(element) ==
    /\ Running
    /\ filter # NULL
    /\ \E through \in HashOutcomes(filter, element) :
         IF through
         THEN /\ heap' = [heap EXCEPT ![filter].bitArray = insert(filter, element)]
              /\ inserted' = inserted \cup {element}
              /\ ret' = [op |-> "insert", key |-> element]
              /\ UNCHANGED fault
         ELSE /\ fault' \in HashFaults
              /\ ret' = [op |-> "insert", key |-> element]
              /\ UNCHANGED <<heap, inserted>>
    /\ UNCHANGED <<charSigned, cli, readers, filter, file, saved>>

\* filter->mightContain(element)
MightContain(element) ==
    /\ Running
    /\ filter # NULL
    /\ \E through \in HashOutcomes(filter, element) :
         IF through
         THEN /\ ret' = [op |-> "mightContain", key |-> element,
                         val |-> mightContain(filter, element)]
              /\ UNCHANGED fault
         ELSE /\ fault' \in HashFaults
              /\ ret' = [op |-> "mightContain", key |-> element]
    /\ UNCHANGED <<charSigned, cli, readers, heap, filter, inserted, file, saved>>

\* filter->clear()
Clear ==
    /\ Running
    /\ filter # NULL
    /\ heap' = [heap EXCEPT ![filter].bitArray = clear(filter)]
    /\ inserted' = {}
    /\ ret' = [op |-> "clear", keys |-> inserted]
    /\ UNCHANGED <<charSigned, cli, readers, filter, file, saved, fault>>

\* filter->getCurrentFalsePositiveRate(insertedItems)
Estimate(insertedItems) ==
    /\ Running
    /\ filter # NULL
    /\ ret' = [op |-> "estimate", arg |-> insertedItems,
                val |-> getCurrentFalsePositiveRate(filter, insertedItems)]
    /\ UNCHANGED <<charSigned, cli, readers, heap, filter, inserted, file, saved, fault>>

\* getSize and getNumHashes that reset the bits.
DescribeClearing ==
    /\ Running
    /\ filter # NULL
    /\ heap' = [heap EXCEPT ![filter].bitArray = clear(filter)]
    /\ ret' = [op |-> "describe", size |-> getSize(filter), numHashes |-> getNumHashes(filter)]
    /\ UNCHANGED <<charSigned, cli, readers, filter, inserted, file, saved, fault>>

\* filter->getSize() and filter->getNumHashes()
Describe ==
    /\ Running
    /\ filter # NULL
    /\ ret' = [op |-> "describe", size |-> getSize(filter), numHashes |-> getNumHashes(filter)]
    /\ UNCHANGED <<charSigned, cli, readers, heap, filter, inserted, file, saved, fault>>

\* What self->mightContain answers for each key: whether the call is
\* defined, and its result.
Answers(self) ==
    [e \in Keys |-> IF CallsDefined(self, e)
                    THEN <<TRUE, mightContain(self, e)>>
                    ELSE <<FALSE, FALSE>>]

\* filter->saveToFile(filename)
Save(openOk, written) ==
    /\ Running
    /\ filter # NULL
    /\ LET r == saveToFile(filter, file, openOk, written)
       IN /\ file' = r.file
          /\ ret' = [op |-> "save", val |-> r.val]
    /\ saved' = IF openOk
                THEN [done |-> TRUE, obj |-> heap[filter], keys |-> inserted,
                      answers |-> Answers(filter)]
                ELSE saved
    /\ UNCHANGED <<charSigned, cli, readers, heap, filter, inserted, fault>>

\* The file named by the user is one that no save of this run wrote.
Foreign(bytes) ==
    /\ Running
    /\ file' = [exists |-> TRUE, bytes |-> bytes]
    /\ saved' = NothingSaved
    /\ ret' = [op |-> "foreign"]
    /\ UNCHANGED <<charSigned, cli, readers, heap, filter, inserted, fault>>

\* loadedFilter = BloomFilter::loadFromFile(filename); on success the caller
\* deletes its filter and keeps the loaded one (main.cpp, loadFilterFromFile).
\* Nothing catches what the constructor throws.
Load(openOk) ==
    /\ Running
    /\ LET r == loadFromFile(heap, file, openOk)
       IN /\ ret' = [op |-> "load", val |-> r.val, allocated |-> r.allocated, at |-> r.at]
          /\ fault' = IF r.at = "throw" THEN "bad_alloc" ELSE fault
          /\ IF r.val = NULL
             THEN /\ heap' = r.heap
                  /\ UNCHANGED <<filter, inserted>>
             ELSE /\ heap' = IF filter = NULL THEN r.heap
                             ELSE [r.heap EXCEPT ![filter] = FreeCell]
                  /\ filter' = r.val
                  /\ inserted' = saved.keys
    /\ UNCHANGED <<charSigned, cli, readers, file, saved>>

\* main, case 1: delete filter;
\* filter = new BloomFilter(BloomFilter::createOptimal(expectedItems, rate));
\* the returned object is built in place (no copy is made of it).  A
\* constructor that cannot allocate throws, and nothing catches it.
CreateOptimal(expectedItems, rate) ==
    /\ Running
    /\ \E args \in createOptimal(expectedItems, rate) :
         LET h == IF filter = NULL THEN heap ELSE [heap EXCEPT ![filter] = FreeCell]
             a == Alloc(h)
         IN IF Allocatable(args)
            THEN /\ heap' = [h EXCEPT ![a] = BloomFilter(a, args.size, args.numHashes)]
                 /\ filter' = a
                 /\ inserted' = {}
                 /\ ret' = [op |-> "createOptimal", n |-> expectedItems, p |-> rate,
                            val |-> "filter"]
                 /\ UNCHANGED fault
            ELSE /\ heap' = h
                 /\ fault' = "bad_alloc"
                 /\ ret' = [op |-> "createOptimal", n |-> expectedItems, p |-> rate,
                            val |-> "exception"]
                 /\ UNCHANGED <<filter, inserted>>
    /\ UNCHANGED <<charSigned, cli, readers, file, saved>>

Next ==
    \/ \E m \in Sizes, k \in 0..MaxHashes : Create(m, k)
    \/ \E e \in Keys : Insert(e)
    \/ \E e \in Keys : MightContain(e)
    \/ Clear
    \/ \E n \in {0, Cardinality(inserted)} : Estimate(n)
    \/ Describe
    \/ Save(FALSE, 0)
    \/ \E written \in WritePoints(IF filter = NULL THEN FreeCell ELSE heap[filter]) :
         Save(TRUE, written)
    \/ \E bytes \in ForeignFiles : Foreign(bytes)
    \/ \E openOk \in BOOLEAN : Load(openOk)

Spec == Init /\ [][Next]_vars

\* BloomFilter copy(*filter): the implicitly defined copy constructor copies
\* member by member, so the hash functions of the copy are the closures of
\* the original, with their captured this.  The caller goes on with the
\* copy; the original stays until it is deleted.
Copy ==
    /\ Running
    /\ filter # NULL
    /\ Alloc(heap) # NULL
    /\ LET a == Alloc(heap)
       IN /\ heap' = [heap EXCEPT ![a] = heap[filter]]
          /\ filter' = a
    /\ ret' = [op |-> "copy"]
    /\ UNCHANGED <<charSigned, cli, readers, inserted, file, saved, fault>>

\* An object other than the caller's filter is destroyed; its memory keeps
\* what it held.
Delete(a) ==
    /\ Running
    /\ a # filter
    /\ heap[a].alive
    /\ heap' = [heap EXCEPT ![a].alive = FALSE]
    /\ ret' = [op |-> "delete"]
    /\ UNCHANGED <<charSigned, cli, readers, filter, inserted, file, saved, fault>>

\* Another filter is constructed while the caller keeps its own
\* (benchmarkPerformance: BloomFilter testFilter(size, numHashes)).
Build(filterSize, numHashFunctions) ==
    /\ Running
    /\ filter # NULL
    /\ Alloc(heap) # NULL
    /\ LET a == Alloc(heap)
       IN heap' = [heap EXCEPT ![a] = BloomFilter(a, filterSize, numHashFunctions)]
    /\ ret' = [op |-> "build"]
    /\ UNCHANGED <<charSigned, cli, readers, filter, inserted, file, saved, fault>>

\* Filters, their copies and the filters built beside them.
NextCopy ==
    \/ \E m \in Sizes, k \in 0..MaxHashes : Create(m, k)
    \/ Copy
    \/ \E a \in Addrs : Delete(a)
    \/ \E m \in Sizes, k \in 0..MaxHashes : Build(m, k)
    \/ \E e \in Keys : Insert(e)
    \/ \E e \in Keys : MightContain(e)
    \/ Clear

SpecCopy == Init /\ [][NextCopy]_vars

\* loaded = BloomFilter::loadFromFile(filename) by a caller that has one
\* filter, keeps it, and goes on with the loaded one.
Reload(openOk) ==
    /\ Running
    /\ filter # NULL
    /\ Live(heap) = {filter}
    /\ LET r == loadFromFile(heap, file, openOk)
       IN /\ heap' = r.heap
          /\ filter' = IF r.val = NULL THEN filter ELSE r.val
          /\ fault' = IF r.at = "throw" THEN "bad_alloc" ELSE fault
          /\ ret' = [op |-> "reload", val |-> r.val]
    /\ UNCHANGED <<charSigned, cli, readers, inserted, file, saved>>

\* The caller goes on with another of the filters it holds.
Turn(a) ==
    /\ Running
    /\ filter # NULL
    /\ a # filter
    /\ heap[a].alive
    /\ filter' = a
    /\ ret' = [op |-> "turn"]
    /\ UNCHANGED <<charSigned, cli, readers, heap, inserted, file, saved, fault>>

\* A filter, the file it is saved to and the filters loaded from the file,
\* all kept by the caller.
NextReload ==
    \/ \E k \in 0..MaxHashes : Create(MaxSize, k)
    \/ \E e \in Keys : Insert(e)
    \/ Clear
    \/ \E written \in {Len(FileImage(IF filter = NULL THEN FreeCell ELSE heap[filter]))} :
         Save(TRUE, written)
    \/ \E openOk \in BOOLEAN : Reload(openOk)
    \/ \E a \in Addrs : Turn(a)

SpecReload == Init /\ [][NextReload]_vars

\* Thread t calls filter->mightContain(element).  before keeps the filter as
\* the call found it.
ReadBegin(t, element) ==
    /\ Running
    /\ filter # NULL
    /\ readers[t].pc = "idle"
    /\ readers' = [readers EXCEPT ![t] =
                     [pc |-> "loop", key |-> element, n |-> 1, before |-> heap[filter]]]
    /\ UNCHANGED <<charSigned, cli, heap, filter, inserted, file, saved, ret, fault>>

\* Thread t runs one iteration of the loop of its call, or leaves the loop.
ReadStep(t) ==
    /\ Running
    /\ readers[t].pc = "loop"
    /\ LET r == readers[t]
           fs == heap[filter].hashFunctions
           Return(v) == [pc |-> "done", key |-> r.key, val |-> v, before |-> r.before]
       IN IF r.n > Len(fs)
          THEN /\ readers' = [readers EXCEPT ![t] = Return(TRUE)]
               /\ UNCHANGED fault
          ELSE IF ~(HashDefined(fs[r.n])
                    /\ CallHash(fs[r.n], r.key) \in DOMAIN heap[filter].bitArray)
          THEN /\ fault' \in HashFaults
               /\ UNCHANGED readers
          ELSE IF ~BitAt(filter, r.key, r.n)
          THEN /\ readers' = [readers EXCEPT ![t] = Return(FALSE)]
               /\ UNCHANGED fault
          ELSE /\ readers' = [readers EXCEPT ![t].n = r.n + 1]
               /\ UNCHANGED fault
    /\ UNCHANGED <<charSigned, cli, heap, filter, inserted, file, saved, ret>>

\* Thread t has used the value its call returned.
ReadEnd(t) ==
    /\ Running
    /\ readers[t].pc = "done"
    /\ readers' = [readers EXCEPT ![t] = Idle]
    /\ UNCHANGED <<charSigned, cli, heap, filter, inserted, file, saved, ret, fault>>

\* No thread is in a call.
Quiet == \A t \in Readers : readers[t].pc = "idle"

\* mightContain calls of several threads, interleaved iteration by
\* iteration; insert and clear run only while no call is under way.
NextReaders ==
    \/ \E k \in 0..MaxHashes : Create(MaxSize, k)
    \/ \E e \in Keys : Quiet /\ Insert(e)
    \/ Quiet /\ Clear
    \/ \E t \in Readers, e \in Keys : ReadBegin(t, e)
    \/ \E t \in Readers : ReadStep(t)
    \/ \E t \in Readers : ReadEnd(t)

SpecReaders == Init /\ [][NextReaders]_vars

\* The parameter calculation alone.
NextOptimal == \E n \in 0..MaxItems, p \in Rates : CreateOptimal(n, p)

SpecOptimal == Init /\ [][NextOptimal]_vars

---------------------------------------------------------------------------
(* The menu loop of main *)

\* The answers to the two prompts of case 1: one or several expected files,
\* and the rates 1/2 and 0; of these, the answers for which the filter
\* created is within the sizes the model keeps (or cannot be allocated at
\* all).
MenuInputs ==
    {np \in {1, MaxItems - 2} \X
              {p \in Rates : p.kind = "zero" \/ (p.kind = "pow" /\ p.a = 1 /\ p.b = 0)} :
        \A args \in createOptimal(np[1], np[2]) :
            /\ args.size <= MaxSize \/ args.size = Huge
            /\ args.numHashes <= MaxHashes \/ args.numHashes = Huge}

\* The set of the strings in a list.
Range(list) == {list[i] : i \in DOMAIN list}

\* filter-> evaluated for a member call: the pointer is null or the object
\* was deleted.
BadPointer == filter = NULL \/ ~heap[filter].alive

\* case 1: delete filter; filter = new BloomFilter(createOptimal(...));
\* insertedElements.clear(); filterCreated = true.  An exception of the
\* constructor leaves main (nothing catches it).
MenuCreate(expectedItems, rate) ==
    /\ Running
    /\ \E args \in createOptimal(expectedItems, rate) :
         LET h == IF filter = NULL THEN heap ELSE [heap EXCEPT ![filter] = FreeCell]
             a == Alloc(h)
         IN IF Allocatable(args)
            THEN /\ heap' = [h EXCEPT ![a] = BloomFilter(a, args.size, args.numHashes)]
                 /\ filter' = a
                 /\ insertedElements' = <<>>
                 /\ filterCreated' = TRUE
                 /\ UNCHANGED fault
            ELSE /\ heap' = h
                 /\ fault' = "bad_alloc"
                 /\ UNCHANGED <<filter, insertedElements, filterCreated>>
    /\ UNCHANGED <<charSigned, readers, ret, inserted, file, saved, elements>>

\* A case that finds filterCreated false prints a message and breaks.
MenuRefused ==
    /\ ~filterCreated
    /\ UNCHANGED <<charSigned, cli, readers, ret, heap, filter, inserted, file, saved, fault>>

\* The bitArray after the strings of lines were inserted in order.
RECURSIVE insertLines(_, _, _)
insertLines(bits, fs, lines) ==
    IF lines = <<>> THEN bits
    ELSE LET next == insertFrom(bits, fs, Head(lines), 1)
         IN insertLines(next, fs, Tail(lines))

\* case 2: filter->insert(filename); insertedElements.push_back(filename).
MenuAdd(filename) ==
    /\ Running
    /\ Len(insertedElements) < MaxElements
    /\ \/ MenuRefused
       \/ /\ filterCreated
          /\ IF BadPointer
             THEN /\ fault' = "SIGSEGV"
                  /\ UNCHANGED <<heap, insertedElements>>
             ELSE \E through \in HashOutcomes(filter, filename) :
                    IF through
                    THEN /\ heap' = [heap EXCEPT ![filter].bitArray = insert(filter, filename)]
                         /\ insertedElements' = Append(insertedElements, filename)
                         /\ UNCHANGED fault
                    ELSE /\ fault' \in HashFaults
                         /\ UNCHANGED <<heap, insertedElements>>
          /\ UNCHANGED <<charSigned, readers, ret, filter, inserted, file, saved, filterCreated, elements>>

\* case 3: filter->mightContain(filename).
MenuCheck(filename) ==
    /\ Running
    /\ \/ MenuRefused
       \/ /\ filterCreated
          /\ IF BadPointer
             THEN fault' = "SIGSEGV"
             ELSE \E through \in HashOutcomes(filter, filename) :
                    IF through
                    THEN UNCHANGED fault
                    ELSE fault' \in HashFaults
          /\ UNCHANGED <<charSigned, cli, readers, ret, heap, filter, inserted, file, saved>>

\* case 4, addFilesFromList: every line of the list file is inserted and
\* pushed back, in order.
MenuAddList(openOk, lines) ==
    /\ Running
    /\ Len(insertedElements) + Len(lines) <= MaxElements
    /\ \/ MenuRefused
       \/ /\ filterCreated
          /\ IF BadPointer
             THEN /\ fault' = "SIGSEGV"
                  /\ UNCHANGED <<heap, insertedElements>>
             ELSE IF ~openOk
             THEN /\ UNCHANGED <<heap, insertedElements, fault>>
             ELSE IF \A e \in Range(lines) : CallsDefined(filter, e)
             THEN /\ heap' = [heap EXCEPT ![filter].bitArray =
                                insertLines(heap[filter].bitArray,
                                            heap[filter].hashFunctions, lines)]
                  /\ insertedElements' = insertedElements \o lines
                  /\ UNCHANGED fault
             ELSE /\ fault' \in HashFaults
                  /\ UNCHANGED <<heap, insertedElements>>
          /\ UNCHANGED <<charSigned, readers, ret, filter, inserted, file, saved, filterCreated, elements>>

\* case 5: getSize, getNumHashes, the estimate for insertedElements.size()
\* when the list is not empty, printFilter.
MenuStatistics ==
    /\ Running
    /\ \/ MenuRefused
       \/ /\ filterCreated
          /\ IF BadPointer
             THEN fault' = "SIGSEGV"
             ELSE UNCHANGED fault
          /\ UNCHANGED <<charSigned, cli, readers, ret, heap, filter, inserted, file, saved>>

\* case 6: filter->clear(); insertedElements.clear().
MenuClear ==
    /\ Running
    /\ \/ MenuRefused
       \/ /\ filterCreated
          /\ IF BadPointer
             THEN /\ fault' = "SIGSEGV"
                  /\ UNCHANGED <<heap, insertedElements>>
             ELSE /\ heap' = [heap EXCEPT ![filter].bitArray = clear(filter)]
                  /\ insertedElements' = <<>>
                  /\ UNCHANGED fault
          /\ UNCHANGED <<charSigned, readers, ret, filter, inserted, file, saved, filterCreated, elements>>

\* cases 7 and 10, testFalsePositiveRate and benchmarkPerformance: hash
\* calls on the filter (case 7, when the list is not empty) or on a local
\* filter of the same size and hashCount (case 10); the filter is only read.
MenuMeasure(n) ==
    /\ Running
    /\ \/ MenuRefused
       \/ /\ filterCreated
          /\ IF BadPointer
             THEN fault' = "SIGSEGV"
             ELSE IF /\ n = 7 => insertedElements # <<>>
                     /\ heap[filter].size = 0 /\ heap[filter].numHashes > 0
             THEN fault' \in HashFaults
             ELSE UNCHANGED fault
          /\ UNCHANGED <<charSigned, cli, readers, ret, heap, filter, inserted, file, saved>>

\* case 8, saveFilterToFile: filter.saveToFile(filename); when it returned
\* true the list is written to filename + ".elements", if that file opens
\* (listOk).
MenuSave(openOk, written, listOk) ==
    /\ Running
    /\ \/ MenuRefused
       \/ /\ filterCreated
          /\ IF BadPointer
             THEN /\ fault' = "SIGSEGV"
                  /\ UNCHANGED <<file, elements>>
             ELSE LET r == saveToFile(filter, file, openOk, written)
                  IN /\ file' = r.file
                     /\ elements' = IF r.val /\ listOk
                                     THEN [exists |-> TRUE, lines |-> insertedElements]
                                     ELSE elements
                     /\ UNCHANGED fault
          /\ UNCHANGED <<charSigned, readers, ret, heap, filter, inserted, saved, filterCreated,
                         insertedElements>>

\* loadFilterFromFile with filterCreated set whatever it returned.
MenuLoadFlagging(openOk, listOk) ==
    /\ Running
    /\ LET r == loadFromFile(heap, file, openOk)
       IN IF r.val = NULL
          THEN /\ heap' = r.heap
               /\ fault' = IF r.at = "throw" THEN "bad_alloc" ELSE fault
               /\ filterCreated' = TRUE
               /\ UNCHANGED <<filter, insertedElements>>
          ELSE /\ insertedElements' = IF elements.exists /\ listOk
                                      THEN elements.lines ELSE <<>>
               /\ heap' = IF filter = NULL THEN r.heap
                          ELSE [r.heap EXCEPT ![filter] = FreeCell]
               /\ filter' = r.val
               /\ filterCreated' = TRUE
               /\ UNCHANGED fault
    /\ UNCHANGED <<charSigned, readers, ret, inserted, file, saved, elements>>

\* case 9, loadFilterFromFile: a null loadedFilter is reported and nothing
\* else is done; otherwise the list is cleared and read from filename +
\* ".elements" if that file opens (listOk), the filter is deleted and
\* replaced by the loaded one, and filterCreated is set.  An exception of
\* the constructor in loadFromFile leaves main.
MenuLoad(openOk, listOk) ==
    /\ Running
    /\ LET r == loadFromFile(heap, file, openOk)
       IN IF r.val = NULL
          THEN /\ heap' = r.heap
               /\ fault' = IF r.at = "throw" THEN "bad_alloc" ELSE fault
               /\ UNCHANGED <<filter, insertedElements, filterCreated>>
          ELSE /\ insertedElements' = IF elements.exists /\ listOk
                                      THEN elements.lines ELSE <<>>
               /\ heap' = IF filter = NULL THEN r.heap
                          ELSE [r.heap EXCEPT ![filter] = FreeCell]
               /\ filter' = r.val
               /\ filterCreated' = TRUE
               /\ UNCHANGED fault
    /\ UNCHANGED <<charSigned, readers, ret, inserted, file, saved, elements>>

\* case 11: delete filter; return 0.
MenuExit ==
    /\ Running
    /\ heap' = IF filter = NULL THEN heap ELSE [heap EXCEPT ![filter] = FreeCell]
    /\ fault' = "exit"
    /\ UNCHANGED <<charSigned, cli, readers, ret, filter, inserted, file, saved>>

\* The lists addFilesFromList reads.
Lists == {<<>>} \cup {<<d, e>> : d, e \in Keys}

\* main: one pass of the loop per step, and the files the user can name.
NextMenu ==
    \/ \E np \in MenuInputs : MenuCreate(np[1], np[2])
    \/ \E e \in Keys : MenuAdd(e)
    \/ \E e \in Keys : MenuCheck(e)
    \/ \E openOk \in BOOLEAN, lines \in Lists : MenuAddList(openOk, lines)
    \/ MenuStatistics
    \/ MenuClear
    \/ \E n \in {7, 10} : MenuMeasure(n)
    \/ \E openOk, listOk \in BOOLEAN :
         MenuSave(openOk, Len(FileImage(IF BadPointer THEN FreeCell ELSE heap[filter])), listOk)
    \/ \E openOk, listOk \in BOOLEAN : MenuLoad(openOk, listOk)
    \/ MenuExit
    \/ \E bytes \in ForeignFiles : Foreign(bytes)

SpecMenu == Init /\ [][NextMenu]_vars

----------------------------------------------------------------------------
(* Properties *)

\* C1. No false negatives: a key whose insert() returned since the last
\* clear() (on this filter, or on the filter this one was loaded from) is
\* reported present, by the function and by every call of it that returned.
NoFalseNegatives ==
    /\ filter # NULL =>
         \A e \in inserted : CallsDefined(filter, e) /\ mightContain(filter, e)
    /\ ret.op = "mightContain" /\ Running /\ ret.key \in inserted => ret.val

\* C1's case: mightContain returned for an inserted key on a filter of two
\* hash functions in which some bit is still clear.
NoFalseNegativesSeen ==
    /\ ret.op = "mightContain" /\ Running
    /\ ret.key \in inserted
    /\ heap[filter].numHashes = 2
    /\ \E i \in DOMAIN heap[filter].bitArray : ~heap[filter].bitArray[i]

\* C2. Right after clear() no bit is set, the bits are those of a newly
\* constructed filter of the same size and hashCount, and mightContain is
\* false for every key that had been inserted before the clear.
ClearForgetsEverything ==
    ret.op = "clear" =>
        LET f == heap[filter]
        IN /\ \A i \in DOMAIN f.bitArray : ~f.bitArray[i]
           /\ f.bitArray = BloomFilter(filter, f.size, f.numHashes).bitArray
           /\ \A e \in ret.keys : ~mightContain(filter, e)

\* C3. A load of the file that a completed save left succeeds, and a filter
\* that a load returns from a file that a save left has the saved filter's
\* size, hashCount and bits and answers mightContain as the saved filter did
\* at the time of the save.
SaveLoadRoundTrip ==
    ret.op = "load" /\ saved.done =>
        /\ ret.val # NULL =>
             /\ filter = ret.val
             /\ heap[filter].alive
             /\ heap[filter].size = saved.obj.size
             /\ heap[filter].numHashes = saved.obj.numHashes
             /\ heap[filter].bitArray = saved.obj.bitArray
             /\ Answers(filter) = saved.answers
        /\ ret.at # "open" /\ file.bytes = FileImage(saved.obj) => ret.val # NULL

\* C3's case: a load returned a filter of more than 8 bits (two payload
\* bytes) in which some bits are set and some are clear.
SaveLoadRoundTripSeen ==
    /\ ret.op = "load"
    /\ saved.done
    /\ ret.val # NULL
    /\ heap[filter].size > 8
    /\ \E i, j \in DOMAIN heap[filter].bitArray :
         heap[filter].bitArray[i] /\ ~heap[filter].bitArray[j]

\* C4. No filter with size = 0 or hashCount = 0 is ever constructed.
NoDegenerateFilter ==
    \A a \in Addrs : heap[a].alive => heap[a].size >= 1 /\ heap[a].numHashes >= 1

\* C5. createOptimal called with expectedItems = 0 or with a false positive
\* rate outside (0, 1) fails with an invalid-parameter error: it neither
\* returns a filter nor ends in any other way.
OptimalRejectsInvalid ==
    ret.op = "createOptimal" /\ (ret.n = 0 \/ ~ValidRate(ret.p)) =>
        ret.val = "invalid_parameter"

\* C6. createOptimal called with expectedItems >= 1 and 0 < rate < 1 returns
\* a filter with size >= 8 and hashCount >= 1 (for these arguments the
\* rational enclosures of the logarithms fix the computed values).
OptimalParametersValid ==
    ret.op = "createOptimal" /\ ret.n >= 1 /\ ValidRate(ret.p) =>
        /\ Enclosed(ret.n, ret.p)
        /\ ret.val = "filter"
        /\ filter # NULL
        /\ heap[filter].alive
        /\ heap[filter].size >= 8
        /\ heap[filter].numHashes >= 1

\* C6's case: createOptimal(1, 1/2), whose computed size 2 is below 8,
\* returned a filter.
OptimalParametersValidSeen ==
    /\ ret.op = "createOptimal"
    /\ ret.n = 1
    /\ ret.p = [kind |-> "pow", a |-> 1, b |-> 0]
    /\ ret.val = "filter"
    /\ heap[filter].size = 8

\* C7. A load that cannot open the file, or finds the header or the payload
\* shorter than required, returns null; the header case allocates nothing,
\* and after any load that gave no filter no object exists but the caller's
\* own filter.
LoadFailsWhole ==
    ret.op = "load" =>
        LET opened == file.exists /\ ret.at # "open"
            required == 12 + ((FromNative(SubSeq(file.bytes, 1, 8)) + 7) \div 8)
        IN /\ ~opened => Running /\ ret.val = NULL /\ ~ret.allocated
           /\ opened /\ Len(file.bytes) < 12 =>
                Running /\ ret.val = NULL /\ ~ret.allocated
           /\ opened /\ Len(file.bytes) >= 12 /\ Len(file.bytes) < required =>
                Running /\ ret.val = NULL
           /\ ret.val = NULL => Live(heap) = {filter} \ {NULL}

\* C8. A save that reports success has left the complete image of the
\* filter in the file, and a load of a file left by such a save is never
\* rejected as truncated.
SaveSuccessMeansComplete ==
    /\ ret.op = "save" /\ ret.val =>
         file.exists /\ file.bytes = FileImage(heap[filter])
    /\ ret.op = "load" /\ saved.done /\ ret.at # "open" => ret.val # NULL

\* x * y modulo 2^64 for 0 <= y < 2^14, limb by limb
RECURSIVE MulCarryInto(_, _, _)
MulCarryInto(x, y, i) ==
    IF i = 1 THEN 0 ELSE (x[i - 1] * y + MulCarryInto(x, y, i - 1)) \div LimbBase

MulSmallU(x, y) == [i \in Limbs |-> (x[i] * y + MulCarryInto(x, y, i)) % LimbBase]

\* The documented hashes: h1 = h1 * 33 + byte from 5381 and
\* h2 = byte + (h2 << 6) + (h2 << 16) - h2 from 0, over the bytes of the key
\* as values 0..255, modulo 2^64.
RECURSIVE DocumentedH1(_, _)
DocumentedH1(key, n) ==
    IF n = 0 THEN ULong(5381)
    ELSE AddU(MulSmallU(DocumentedH1(key, n - 1), 33), ULong(key[n]))

RECURSIVE DocumentedH2(_, _)
DocumentedH2(key, n) ==
    IF n = 0 THEN ULong(0)
    ELSE LET h == DocumentedH2(key, n - 1)
         IN SubU(AddU(AddU(ULong(key[n]), ShlU(h, 6)), ShlU(h, 16)), h)

\* (h1(key) mod size + i * (h2(key) mod size)) mod size
DocumentedIndex(key, i, size) ==
    (ModU(DocumentedH1(key, Len(key)), size)
     + i * ModU(DocumentedH2(key, Len(key)), size)) % size

\* C9. The i-th index of a key is the documented one, for keys with bytes
\* in 128..255 too; for size 8, hashCount 1 and the key "a" it is 6.
IndicesAsDocumented ==
    filter # NULL /\ heap[filter].size > 0 =>
        LET f == heap[filter]
        IN /\ \A key \in AllKeys : \A n \in 1..Len(f.hashFunctions) :
                CallHash(f.hashFunctions[n], key) = DocumentedIndex(key, n - 1, f.size)
           /\ f.size = 8 /\ f.numHashes = 1 =>
                CallHash(f.hashFunctions[1], <<97>>) = 6

\* C10. A filter has exactly hashCount hash functions, each of them yields
\* for every key an index in [0, size), and no operation stops on an index
\* computation.
IndicesInRange ==
    /\ filter # NULL =>
         /\ Len(heap[filter].hashFunctions) = heap[filter].numHashes
         /\ \A key \in AllKeys : CallsDefined(filter, key)
    /\ fault \notin HashFaults

\* C11. The indices of a filter are a function of the key and of the
\* filter's own size and hashCount: every hash call of the caller's filter
\* reads an object that exists, and yields (h1 + i * h2) mod size with the
\* filter's own size, whatever other objects exist.
IndicesOwnFunction ==
    filter # NULL /\ heap[filter].size > 0 =>
        LET f == heap[filter]
        IN \A key \in Keys : \A n \in 1..Len(f.hashFunctions) :
             /\ heap[f.hashFunctions[n].this].alive
             /\ CallsComputable(filter, key)
             /\ CallHash(f.hashFunctions[n], key)
                  = (Hash1Of[charSigned, key, f.size]
                     + (n - 1) * Hash2Of[charSigned, key, f.size]) % f.size

\* C12. What a save hands to the file is 12 + ceil(size/8) bytes: size in
\* 8 bytes and hashCount in 4 bytes, least significant byte first, then
\* bytes in which bit (i mod 8) of payload byte (i div 8) is 1 exactly when
\* bit i of the filter is 1, and every bit position from size on is 0.  The
\* file holds these bytes from the first one on, all of them when the
\* writes completed.
SerializedForm ==
    ret.op = "save" /\ ret.val =>
        LET f == heap[filter]
            image == FileImage(f)
            npayload == (f.size + 7) \div 8
            PayloadBit(i) == (image[13 + (i \div 8)] \div 2^(i % 8)) % 2
        IN /\ Len(image) = 12 + npayload
           /\ image[1] + 256 * image[2] = f.size
           /\ \A n \in 3..8 : image[n] = 0
           /\ image[9] + 256 * image[10] = f.numHashes
           /\ \A n \in 11..12 : image[n] = 0
           /\ \A n \in 1..Len(image) : image[n] \in 0..255
           /\ \A i \in 0..(f.size - 1) : (PayloadBit(i) = 1) <=> f.bitArray[i]
           /\ \A i \in f.size..(8 * npayload - 1) : PayloadBit(i) = 0
           /\ Len(file.bytes) <= Len(image)
           /\ file.bytes = SubSeq(image, 1, Len(file.bytes))

\* C12's case: a save wrote the whole image of a filter whose last payload
\* byte is partly padding and which has a bit set in each payload byte.
SerializedFormSeen ==
    /\ ret.op = "save" /\ ret.val
    /\ heap[filter].size = MaxSize
    /\ Len(file.bytes) = 12 + ((MaxSize + 7) \div 8)
    /\ \E i \in 0..7 : heap[filter].bitArray[i]
    /\ \E i \in 8..(MaxSize - 1) : heap[filter].bitArray[i]

\* C13. While mightContain calls of several threads are interleaved and
\* nothing else runs, the filter stays as each call found it, and each call
\* returns what the call returns when it runs alone on that filter.
ReadersAgree ==
    \A t \in Readers :
        /\ readers[t].pc # "idle" => filter # NULL /\ heap[filter] = readers[t].before
        /\ readers[t].pc = "done" => readers[t].val = mightContain(filter, readers[t].key)

\* C13's case: one thread's call has returned false while another thread's
\* call on another key is past its first bit.
ReadersAgreeSeen ==
    \E t, u \in Readers :
        /\ readers[t].pc = "done" /\ ~readers[t].val
        /\ readers[u].pc = "loop" /\ readers[u].n = 2
        /\ readers[u].key # readers[t].key

\* C14. getCurrentFalsePositiveRate(0) returns exactly 0.0, whatever the
\* filter's size, hashCount and bits.
EstimateOfNoItems ==
    ret.op = "estimate" /\ ret.arg = 0 => ret.val.zero

\* C14's case: the estimate for no items was asked of a filter whose bits
\* are all set.
EstimateOfNoItemsSeen ==
    /\ ret.op = "estimate" /\ ret.arg = 0
    /\ heap[filter].size >= 1
    /\ \A i \in DOMAIN heap[filter].bitArray : heap[filter].bitArray[i]

\* C15. Every filter that exists has hashCount >= 1 and size >= 8.
EveryFilterWellFormed ==
    \A a \in Addrs : heap[a].alive => heap[a].numHashes >= 1 /\ heap[a].size >= 8

\* C16. The bit array of every filter holds exactly size cells, and no call
\* on a filter changes its size or its hashCount.
ShapeFixed ==
    /\ [](\A a \in Addrs :
            heap[a].alive => DOMAIN heap[a].bitArray = 0..(heap[a].size - 1))
    /\ [][filter # NULL /\ filter' = filter =>
            /\ heap'[filter].size = heap[filter].size
            /\ heap'[filter].numHashes = heap[filter].numHashes]_vars

\* C16's case: a filter of the largest size that was saved, cleared and then
\* had both keys inserted.
ShapeFixedSeen ==
    /\ ret.op = "insert"
    /\ saved.done
    /\ inserted = Keys
    /\ saved.keys = {}
    /\ heap[filter].size = MaxSize

\* C17. On one filter a bit goes from 1 to 0 only in a clear, and the clear
\* leaves no bit set.
BitsMonotone ==
    [][filter # NULL /\ filter' = filter =>
        LET old == heap[filter].bitArray
            new == heap'[filter].bitArray
        IN (\E i \in DOMAIN old : old[i] /\ ~new[i]) =>
              ret'.op = "clear" /\ \A i \in DOMAIN new : ~new[i]]_vars

\* C17's case: a clear of a filter of two hash functions that held both keys.
BitsMonotoneSeen ==
    /\ ret.op = "clear"
    /\ ret.keys = Keys
    /\ heap[filter].numHashes = 2
    /\ heap[filter].size >= 8

\* C18. An insert that returns sets the bits at the indices of its key and
\* changes nothing else of the filter: not another bit, not size, not
\* hashCount, not the hash functions (so nothing at all when the bits were
\* set already).
InsertFrame ==
    [][ret'.op = "insert" /\ fault' = "none" =>
        LET f == heap[filter]
            indices == {CallHash(f.hashFunctions[n], ret'.key) :
                          n \in 1..Len(f.hashFunctions)}
        IN /\ filter' = filter
           /\ heap' = [heap EXCEPT ![filter].bitArray =
                          [i \in DOMAIN f.bitArray |-> f.bitArray[i] \/ i \in indices]]
           /\ Cardinality(indices) <= f.numHashes]_vars

\* C18's case: an insert into a filter of two hash functions that holds the
\* other key too, with bits that are not this key's.
InsertFrameSeen ==
    /\ ret.op = "insert" /\ Running
    /\ inserted = Keys
    /\ heap[filter].numHashes = 2
    /\ \E i \in DOMAIN heap[filter].bitArray :
         /\ heap[filter].bitArray[i]
         /\ \A n \in 1..2 : CallHash(heap[filter].hashFunctions[n], ret.key) # i

\* C19. mightContain returns true exactly when the bit at every one of the
\* key's hashCount indices is set.
ContainsIffAllBits ==
    /\ ret.op = "mightContain" /\ Running =>
         (ret.val <=>
            \A n \in 1..heap[filter].numHashes :
               heap[filter].bitArray[CallHash(heap[filter].hashFunctions[n], ret.key)])
    /\ filter # NULL =>
         \A key \in Keys : CallsDefined(filter, key) =>
            (mightContain(filter, key) <=>
               \A n \in 1..heap[filter].numHashes :
                  heap[filter].bitArray[CallHash(heap[filter].hashFunctions[n], key)])

\* C19's case: mightContain returned false for a key whose first bit is set
\* and whose second bit is not.
ContainsIffAllBitsSeen ==
    /\ ret.op = "mightContain" /\ Running
    /\ ~ret.val
    /\ heap[filter].numHashes = 2
    /\ heap[filter].bitArray[CallHash(heap[filter].hashFunctions[1], ret.key)]
    /\ ~heap[filter].bitArray[CallHash(heap[filter].hashFunctions[2], ret.key)]

\* C20. mightContain, getCurrentFalsePositiveRate, getSize, getNumHashes and
\* saveToFile, whatever it returns, change no filter.
QueriesChangeNothing ==
    [][ret'.op \in {"mightContain", "estimate", "describe", "save"} =>
        heap' = heap /\ filter' = filter]_vars

\* C20's case: a save that could not open its file, on a filter that holds
\* a key.
QueriesChangeNothingSeen ==
    /\ ret.op = "save" /\ ~ret.val
    /\ inserted # {}
    /\ \E i \in DOMAIN heap[filter].bitArray : heap[filter].bitArray[i]

\* C21. A filter and the filters loaded from its file are independent: an
\* insert or a clear on one of them changes no other filter (not a bit, and
\* so no mightContain answer) and not the saved bytes.
LoadedIndependent ==
    [][ret'.op \in {"insert", "clear"} =>
        /\ file' = file
        /\ \A a \in Addrs \ {filter} :
             /\ heap'[a] = heap[a]
             /\ heap[a].alive => Answers(a)' = Answers(a)]_vars

\* C21's case: a key was inserted into the loaded filter (the second
\* object) while the filter that was saved (the first) is as it was saved,
\* and the two differ by now.
LoadedIndependentSeen ==
    /\ ret.op = "insert" /\ Running
    /\ filter = 2 /\ heap[1].alive /\ saved.done
    /\ heap[1] = saved.obj
    /\ heap[2].size = heap[1].size /\ heap[2].numHashes = heap[1].numHashes
    /\ heap[2].numHashes >= 1
    /\ heap[2].bitArray # heap[1].bitArray
    /\ file.bytes = FileImage(heap[1])

\* C22. In the menu loop a load that fails and a save that fails change
\* nothing: after the step the loop goes on with the same filter object,
\* the same filterCreated and the same insertedElements.
FailedPersistenceKeeps ==
    [][(\/ \E openOk, listOk \in BOOLEAN :
             /\ MenuLoad(openOk, listOk)
             /\ loadFromFile(heap, file, openOk).val = NULL
        \/ \E openOk, listOk \in BOOLEAN :
             /\ filterCreated /\ ~BadPointer
             /\ ~(openOk /\ listOk)
             /\ MenuSave(openOk, Len(FileImage(heap[filter])), listOk))
       => /\ Running'
          /\ filter' = filter
          /\ heap' = heap
          /\ filterCreated' = filterCreated
          /\ insertedElements' = insertedElements]_vars

\* C23. While the loop runs, filterCreated is true exactly when filter is
\* not null, and a filter that is not null points to an object that exists.
FlagMeansFilter ==
    Running => /\ filterCreated <=> filter # NULL
               /\ filter # NULL => heap[filter].alive

\* C23's case: the loop runs with a filter that a load put in the place of
\* an earlier one (which was deleted), with the list read from the side
\* file.
FlagMeansFilterSeen ==
    /\ Running /\ filterCreated
    /\ filter = 2 /\ heap[2].alive /\ ~heap[1].alive
    /\ insertedElements # <<>>
    /\ file.exists /\ file.bytes = FileImage(heap[filter])

\* The bits that are set in self when exactly the keys of the set were
\* inserted into it, in whatever order and however often.
BitsOf(self, keys) ==
    LET fs == heap[self].hashFunctions
    IN [i \in DOMAIN heap[self].bitArray |->
          \E e \in keys, n \in 1..Len(fs) : CallHash(fs[n], e) = i]

\* C24. insert is idempotent and order-independent: on every filter reached,
\* inserting a key twice gives the bits of inserting it once, inserting two
\* keys gives the same bits in either order, and the bits of the filter are
\* those of the set of keys inserted since the last clear, whatever the
\* sequence of inserts was.
InsertsCommute ==
    Running /\ filter # NULL /\ (\A e \in Keys : CallsDefined(filter, e)) =>
        LET f == heap[filter]
            After(bits, e) == insertFrom(bits, f.hashFunctions, e, 1)
        IN /\ \A a \in Keys :
                LET once == After(f.bitArray, a)
                IN After(once, a) = once
           /\ \A a, b \in Keys :
                LET ab == After(After(f.bitArray, a), b)
                    ba == After(After(f.bitArray, b), a)
                IN ab = ba
           /\ f.bitArray = BitsOf(filter, inserted)

\* C24's case: the last call inserted a key into a filter of two hash
\* functions that held both keys when it was saved, and the filter is as it
\* was saved; each key alone sets fewer bits than the two.
InsertsCommuteSeen ==
    /\ ret.op = "insert" /\ Running
    /\ saved.done /\ saved.keys = Keys /\ inserted = Keys
    /\ heap[filter].numHashes = 2 /\ heap[filter].size >= 8
    /\ heap[filter].bitArray = saved.obj.bitArray
    /\ \A e \in Keys : BitsOf(filter, {e}) # heap[filter].bitArray

\* C25. While the loop runs, every string of insertedElements is reported
\* present by mightContain on the current filter.
ListedArePresent ==
    Running /\ filterCreated /\ ~BadPointer =>
        \A e \in Range(insertedElements) :
            CallsDefined(filter, e) /\ mightContain(filter, e)

===========================================================================
